---- MODULE Spec2Model ----
(***************************************************************************)
(* Model of the OpenTelemetry exporter's span conversion:                  *)
(*   observability/otel-exporter/src/span-converter.ts  (SpanConverter)    *)
(*   observability/otel-exporter/src/otel-span.ts       (OtelSpan)         *)
(*                                                                         *)
(* Spec      : one SpanConverter instance, MaxCalls convertSpan calls      *)
(*             interleaved with the steps of the lazy initialization.      *)
(* SpecSpan  : the OtelSpan constructor as a pure function of one span,    *)
(*             the span drawn from a bounded set of exported spans.        *)
(* SpecProvider : normalizeProvider applied, and applied again to its own  *)
(*             result, to a provider name drawn from a bounded set.        *)
(***************************************************************************)
EXTENDS Integers, Sequences, FiniteSets, TLC

VARIABLES
    params,        \* SpanConverter.params (constructor argument)
    resource,      \* SpanConverter.resource  : <<>> (undefined) or <<r>>
    scope,         \* SpanConverter.scope     : <<>> (undefined) or <<s>>
    initPromise,   \* SpanConverter.initPromise : 0 (undefined) or an attempt id
    attempts,      \* the async bodies started by initIfNeeded, by attempt id:
                   \* position, the two versions, and what the lookups returned
    calls,         \* the convertSpan calls, by call number
    initStarts,    \* how many times the body of initIfNeeded was started
    lookupCalls,   \* how many times getPackageVersion was called
    resourceWrites,\* how many times this.resource was assigned
    scopeWrites,   \* how many times this.scope was assigned
    span,          \* SpecSpan: the exported span handed to the constructor
    otel,          \* SpecSpan: <<>> or <<the constructed OtelSpan>>
    providerInput, \* SpecProvider: the provider name given to normalizeProvider
    providerResults\* SpecProvider: the results of the successive applications

vars == <<params, resource, scope, initPromise, attempts, calls, initStarts,
          lookupCalls, resourceWrites, scopeWrites, span, otel,
          providerInput, providerResults>>

providerVars == <<providerInput, providerResults>>

converterVars == <<params, resource, scope, initPromise, attempts, calls,
                   initStarts, lookupCalls, resourceWrites, scopeWrites>>

(***************************************************************************)
(* Bounds                                                                  *)
(***************************************************************************)
MaxCalls == 3
MaxMeta == 2
MaxApplications == 2

(***************************************************************************)
(* JavaScript values.  A value is [t |-> typeof-like tag, v |-> text]:     *)
(* v is the string itself for a string, String(x) for a number or boolean, *)
(* and the JSON text for an object.                                        *)
(***************************************************************************)
Undefined == [t |-> "undefined", v |-> "undefined"]
Null == [t |-> "null", v |-> "null"]
Str(s) == [t |-> "string", v |-> s]
Num(s) == [t |-> "number", v |-> s]
Bool(s) == [t |-> "boolean", v |-> s]
Obj(json) == [t |-> "object", v |-> json]

\* JavaScript ToBoolean
Truthy(x) ==
    CASE x.t = "undefined" -> FALSE
      [] x.t = "null" -> FALSE
      [] x.t = "string" -> x.v # ""
      [] x.t = "number" -> x.v \notin {"0", "-0", "NaN"}
      [] x.t = "boolean" -> x.v = "true"
      [] OTHER -> TRUE

\* a ?? b
Nullish(x) == x.t \in {"undefined", "null"}
Coalesce(a, b) == IF Nullish(a) THEN b ELSE a

\* a || b
OrElse(a, b) == IF Truthy(a) THEN a ELSE b

\* JSON.stringify(x) for a non-string x, and the property key String(x)
Stringify(x) == x.v

\* an object used as a map: attributes, resources
Put(m, k, x) == (k :> x) @@ m
Get(m, k) == IF k \in DOMAIN m THEN m[k] ELSE Undefined
Merge(a, b) == b @@ a
Empty == [y \in {} |-> Undefined]

(***************************************************************************)
(* Strings.  TLA+ strings are atomic, so the strings that the code takes   *)
(* apart character by character are listed with their characters.          *)
(***************************************************************************)
Chars ==
    ("model_generation" :> <<"m", "o", "d", "e", "l", "_", "g", "e", "n", "e", "r", "a", "t", "i", "o", "n">>) @@
    ("tool_call" :> <<"t", "o", "o", "l", "_", "c", "a", "l", "l">>) @@
    ("mcp_tool_call" :> <<"m", "c", "p", "_", "t", "o", "o", "l", "_", "c", "a", "l", "l">>) @@
    ("agent_run" :> <<"a", "g", "e", "n", "t", "_", "r", "u", "n">>) @@
    ("workflow_run" :> <<"w", "o", "r", "k", "f", "l", "o", "w", "_", "r", "u", "n">>) @@
    ("generic" :> <<"g", "e", "n", "e", "r", "i", "c">>) @@
    ("workflow_step" :> <<"w", "o", "r", "k", "f", "l", "o", "w", "_", "s", "t", "e", "p">>) @@
    ("my span" :> <<"m", "y", " ", "s", "p", "a", "n">>) @@
    ("step: a/b #1" :> <<"s", "t", "e", "p", ":", " ", "a", "/", "b", " ", "#", "1">>) @@
    ("café_1.0-x" :> <<"c", "a", "f", "é", "_", "1", ".", "0", "-", "x">>) @@
    ("" :> <<>>) @@
    ("anthropic" :> <<"a", "n", "t", "h", "r", "o", "p", "i", "c">>) @@
    ("ANTHROPIC" :> <<"A", "N", "T", "H", "R", "O", "P", "I", "C">>) @@
    ("Anthropic" :> <<"A", "n", "t", "h", "r", "o", "p", "i", "c">>) @@
    ("claude" :> <<"c", "l", "a", "u", "d", "e">>) @@
    ("CLAUDE" :> <<"C", "L", "A", "U", "D", "E">>) @@
    ("Claude" :> <<"C", "l", "a", "u", "d", "e">>) @@
    ("aws.bedrock" :> <<"a", "w", "s", ".", "b", "e", "d", "r", "o", "c", "k">>) @@
    ("AWS.BEDROCK" :> <<"A", "W", "S", ".", "B", "E", "D", "R", "O", "C", "K">>) @@
    ("Aws.bedrock" :> <<"A", "w", "s", ".", "b", "e", "d", "r", "o", "c", "k">>) @@
    ("awsbedrock" :> <<"a", "w", "s", "b", "e", "d", "r", "o", "c", "k">>) @@
    ("AWSBEDROCK" :> <<"A", "W", "S", "B", "E", "D", "R", "O", "C", "K">>) @@
    ("Awsbedrock" :> <<"A", "w", "s", "b", "e", "d", "r", "o", "c", "k">>) @@
    ("bedrock" :> <<"b", "e", "d", "r", "o", "c", "k">>) @@
    ("BEDROCK" :> <<"B", "E", "D", "R", "O", "C", "K">>) @@
    ("Bedrock" :> <<"B", "e", "d", "r", "o", "c", "k">>) @@
    ("amazonbedrock" :> <<"a", "m", "a", "z", "o", "n", "b", "e", "d", "r", "o", "c", "k">>) @@
    ("AMAZONBEDROCK" :> <<"A", "M", "A", "Z", "O", "N", "B", "E", "D", "R", "O", "C", "K">>) @@
    ("Amazonbedrock" :> <<"A", "m", "a", "z", "o", "n", "b", "e", "d", "r", "o", "c", "k">>) @@
    ("azure.ai.inference" :> <<"a", "z", "u", "r", "e", ".", "a", "i", ".", "i", "n", "f", "e", "r", "e", "n", "c", "e">>) @@
    ("AZURE.AI.INFERENCE" :> <<"A", "Z", "U", "R", "E", ".", "A", "I", ".", "I", "N", "F", "E", "R", "E", "N", "C", "E">>) @@
    ("Azure.ai.inference" :> <<"A", "z", "u", "r", "e", ".", "a", "i", ".", "i", "n", "f", "e", "r", "e", "n", "c", "e">>) @@
    ("azureaiinference" :> <<"a", "z", "u", "r", "e", "a", "i", "i", "n", "f", "e", "r", "e", "n", "c", "e">>) @@
    ("AZUREAIINFERENCE" :> <<"A", "Z", "U", "R", "E", "A", "I", "I", "N", "F", "E", "R", "E", "N", "C", "E">>) @@
    ("Azureaiinference" :> <<"A", "z", "u", "r", "e", "a", "i", "i", "n", "f", "e", "r", "e", "n", "c", "e">>) @@
    ("azureinference" :> <<"a", "z", "u", "r", "e", "i", "n", "f", "e", "r", "e", "n", "c", "e">>) @@
    ("AZUREINFERENCE" :> <<"A", "Z", "U", "R", "E", "I", "N", "F", "E", "R", "E", "N", "C", "E">>) @@
    ("Azureinference" :> <<"A", "z", "u", "r", "e", "i", "n", "f", "e", "r", "e", "n", "c", "e">>) @@
    ("azure.ai.openai" :> <<"a", "z", "u", "r", "e", ".", "a", "i", ".", "o", "p", "e", "n", "a", "i">>) @@
    ("AZURE.AI.OPENAI" :> <<"A", "Z", "U", "R", "E", ".", "A", "I", ".", "O", "P", "E", "N", "A", "I">>) @@
    ("Azure.ai.openai" :> <<"A", "z", "u", "r", "e", ".", "a", "i", ".", "o", "p", "e", "n", "a", "i">>) @@
    ("azureaiopenai" :> <<"a", "z", "u", "r", "e", "a", "i", "o", "p", "e", "n", "a", "i">>) @@
    ("AZUREAIOPENAI" :> <<"A", "Z", "U", "R", "E", "A", "I", "O", "P", "E", "N", "A", "I">>) @@
    ("Azureaiopenai" :> <<"A", "z", "u", "r", "e", "a", "i", "o", "p", "e", "n", "a", "i">>) @@
    ("azureopenai" :> <<"a", "z", "u", "r", "e", "o", "p", "e", "n", "a", "i">>) @@
    ("AZUREOPENAI" :> <<"A", "Z", "U", "R", "E", "O", "P", "E", "N", "A", "I">>) @@
    ("Azureopenai" :> <<"A", "z", "u", "r", "e", "o", "p", "e", "n", "a", "i">>) @@
    ("msopenai" :> <<"m", "s", "o", "p", "e", "n", "a", "i">>) @@
    ("MSOPENAI" :> <<"M", "S", "O", "P", "E", "N", "A", "I">>) @@
    ("Msopenai" :> <<"M", "s", "o", "p", "e", "n", "a", "i">>) @@
    ("microsoftopenai" :> <<"m", "i", "c", "r", "o", "s", "o", "f", "t", "o", "p", "e", "n", "a", "i">>) @@
    ("MICROSOFTOPENAI" :> <<"M", "I", "C", "R", "O", "S", "O", "F", "T", "O", "P", "E", "N", "A", "I">>) @@
    ("Microsoftopenai" :> <<"M", "i", "c", "r", "o", "s", "o", "f", "t", "o", "p", "e", "n", "a", "i">>) @@
    ("cohere" :> <<"c", "o", "h", "e", "r", "e">>) @@
    ("COHERE" :> <<"C", "O", "H", "E", "R", "E">>) @@
    ("Cohere" :> <<"C", "o", "h", "e", "r", "e">>) @@
    ("deepseek" :> <<"d", "e", "e", "p", "s", "e", "e", "k">>) @@
    ("DEEPSEEK" :> <<"D", "E", "E", "P", "S", "E", "E", "K">>) @@
    ("Deepseek" :> <<"D", "e", "e", "p", "s", "e", "e", "k">>) @@
    ("gcp.gemini" :> <<"g", "c", "p", ".", "g", "e", "m", "i", "n", "i">>) @@
    ("GCP.GEMINI" :> <<"G", "C", "P", ".", "G", "E", "M", "I", "N", "I">>) @@
    ("Gcp.gemini" :> <<"G", "c", "p", ".", "g", "e", "m", "i", "n", "i">>) @@
    ("gcpgemini" :> <<"g", "c", "p", "g", "e", "m", "i", "n", "i">>) @@
    ("GCPGEMINI" :> <<"G", "C", "P", "G", "E", "M", "I", "N", "I">>) @@
    ("Gcpgemini" :> <<"G", "c", "p", "g", "e", "m", "i", "n", "i">>) @@
    ("gemini" :> <<"g", "e", "m", "i", "n", "i">>) @@
    ("GEMINI" :> <<"G", "E", "M", "I", "N", "I">>) @@
    ("Gemini" :> <<"G", "e", "m", "i", "n", "i">>) @@
    ("gcp.gen_ai" :> <<"g", "c", "p", ".", "g", "e", "n", "_", "a", "i">>) @@
    ("GCP.GEN_AI" :> <<"G", "C", "P", ".", "G", "E", "N", "_", "A", "I">>) @@
    ("Gcp.gen_ai" :> <<"G", "c", "p", ".", "g", "e", "n", "_", "a", "i">>) @@
    ("gcpgenai" :> <<"g", "c", "p", "g", "e", "n", "a", "i">>) @@
    ("GCPGENAI" :> <<"G", "C", "P", "G", "E", "N", "A", "I">>) @@
    ("Gcpgenai" :> <<"G", "c", "p", "g", "e", "n", "a", "i">>) @@
    ("googlegenai" :> <<"g", "o", "o", "g", "l", "e", "g", "e", "n", "a", "i">>) @@
    ("GOOGLEGENAI" :> <<"G", "O", "O", "G", "L", "E", "G", "E", "N", "A", "I">>) @@
    ("Googlegenai" :> <<"G", "o", "o", "g", "l", "e", "g", "e", "n", "a", "i">>) @@
    ("googleai" :> <<"g", "o", "o", "g", "l", "e", "a", "i">>) @@
    ("GOOGLEAI" :> <<"G", "O", "O", "G", "L", "E", "A", "I">>) @@
    ("Googleai" :> <<"G", "o", "o", "g", "l", "e", "a", "i">>) @@
    ("gcp.vertex_ai" :> <<"g", "c", "p", ".", "v", "e", "r", "t", "e", "x", "_", "a", "i">>) @@
    ("GCP.VERTEX_AI" :> <<"G", "C", "P", ".", "V", "E", "R", "T", "E", "X", "_", "A", "I">>) @@
    ("Gcp.vertex_ai" :> <<"G", "c", "p", ".", "v", "e", "r", "t", "e", "x", "_", "a", "i">>) @@
    ("gcpvertexai" :> <<"g", "c", "p", "v", "e", "r", "t", "e", "x", "a", "i">>) @@
    ("GCPVERTEXAI" :> <<"G", "C", "P", "V", "E", "R", "T", "E", "X", "A", "I">>) @@
    ("Gcpvertexai" :> <<"G", "c", "p", "v", "e", "r", "t", "e", "x", "a", "i">>) @@
    ("vertexai" :> <<"v", "e", "r", "t", "e", "x", "a", "i">>) @@
    ("VERTEXAI" :> <<"V", "E", "R", "T", "E", "X", "A", "I">>) @@
    ("Vertexai" :> <<"V", "e", "r", "t", "e", "x", "a", "i">>) @@
    ("groq" :> <<"g", "r", "o", "q">>) @@
    ("GROQ" :> <<"G", "R", "O", "Q">>) @@
    ("Groq" :> <<"G", "r", "o", "q">>) @@
    ("ibm.watsonx.ai" :> <<"i", "b", "m", ".", "w", "a", "t", "s", "o", "n", "x", ".", "a", "i">>) @@
    ("IBM.WATSONX.AI" :> <<"I", "B", "M", ".", "W", "A", "T", "S", "O", "N", "X", ".", "A", "I">>) @@
    ("Ibm.watsonx.ai" :> <<"I", "b", "m", ".", "w", "a", "t", "s", "o", "n", "x", ".", "a", "i">>) @@
    ("ibmwatsonxai" :> <<"i", "b", "m", "w", "a", "t", "s", "o", "n", "x", "a", "i">>) @@
    ("IBMWATSONXAI" :> <<"I", "B", "M", "W", "A", "T", "S", "O", "N", "X", "A", "I">>) @@
    ("Ibmwatsonxai" :> <<"I", "b", "m", "w", "a", "t", "s", "o", "n", "x", "a", "i">>) @@
    ("watsonx" :> <<"w", "a", "t", "s", "o", "n", "x">>) @@
    ("WATSONX" :> <<"W", "A", "T", "S", "O", "N", "X">>) @@
    ("Watsonx" :> <<"W", "a", "t", "s", "o", "n", "x">>) @@
    ("watsonxai" :> <<"w", "a", "t", "s", "o", "n", "x", "a", "i">>) @@
    ("WATSONXAI" :> <<"W", "A", "T", "S", "O", "N", "X", "A", "I">>) @@
    ("Watsonxai" :> <<"W", "a", "t", "s", "o", "n", "x", "a", "i">>) @@
    ("mistral_ai" :> <<"m", "i", "s", "t", "r", "a", "l", "_", "a", "i">>) @@
    ("MISTRAL_AI" :> <<"M", "I", "S", "T", "R", "A", "L", "_", "A", "I">>) @@
    ("Mistral_ai" :> <<"M", "i", "s", "t", "r", "a", "l", "_", "a", "i">>) @@
    ("mistral" :> <<"m", "i", "s", "t", "r", "a", "l">>) @@
    ("MISTRAL" :> <<"M", "I", "S", "T", "R", "A", "L">>) @@
    ("Mistral" :> <<"M", "i", "s", "t", "r", "a", "l">>) @@
    ("mistralai" :> <<"m", "i", "s", "t", "r", "a", "l", "a", "i">>) @@
    ("MISTRALAI" :> <<"M", "I", "S", "T", "R", "A", "L", "A", "I">>) @@
    ("Mistralai" :> <<"M", "i", "s", "t", "r", "a", "l", "a", "i">>) @@
    ("openai" :> <<"o", "p", "e", "n", "a", "i">>) @@
    ("OPENAI" :> <<"O", "P", "E", "N", "A", "I">>) @@
    ("Openai" :> <<"O", "p", "e", "n", "a", "i">>) @@
    ("oai" :> <<"o", "a", "i">>) @@
    ("OAI" :> <<"O", "A", "I">>) @@
    ("Oai" :> <<"O", "a", "i">>) @@
    ("perplexity" :> <<"p", "e", "r", "p", "l", "e", "x", "i", "t", "y">>) @@
    ("PERPLEXITY" :> <<"P", "E", "R", "P", "L", "E", "X", "I", "T", "Y">>) @@
    ("Perplexity" :> <<"P", "e", "r", "p", "l", "e", "x", "i", "t", "y">>) @@
    ("pplx" :> <<"p", "p", "l", "x">>) @@
    ("PPLX" :> <<"P", "P", "L", "X">>) @@
    ("Pplx" :> <<"P", "p", "l", "x">>) @@
    ("x_ai" :> <<"x", "_", "a", "i">>) @@
    ("X_AI" :> <<"X", "_", "A", "I">>) @@
    ("X_ai" :> <<"X", "_", "a", "i">>) @@
    ("xai" :> <<"x", "a", "i">>) @@
    ("XAI" :> <<"X", "A", "I">>) @@
    ("Xai" :> <<"X", "a", "i">>) @@
    ("x-ai" :> <<"x", "-", "a", "i">>) @@
    ("X-AI" :> <<"X", "-", "A", "I">>) @@
    ("X-ai" :> <<"X", "-", "a", "i">>) @@
    ("x.com ai" :> <<"x", ".", "c", "o", "m", " ", "a", "i">>) @@
    ("X.COM AI" :> <<"X", ".", "C", "O", "M", " ", "A", "I">>) @@
    ("X.com ai" :> <<"X", ".", "c", "o", "m", " ", "a", "i">>) @@
    ("OpenAI" :> <<"O", "p", "e", "n", "A", "I">>) @@
    ("my-custom-llm" :> <<"m", "y", "-", "c", "u", "s", "t", "o", "m", "-", "l", "l", "m">>) @@
    ("My-Custom-LLM" :> <<"M", "y", "-", "C", "u", "s", "t", "o", "m", "-", "L", "L", "M">>) @@
    ("X.com AI" :> <<"X", ".", "c", "o", "m", " ", "A", "I">>) @@
    ("Azure OpenAI" :> <<"A", "z", "u", "r", "e", " ", "O", "p", "e", "n", "A", "I">>) @@
    ("azure openai" :> <<"a", "z", "u", "r", "e", " ", "o", "p", "e", "n", "a", "i">>) @@
    ("AWS Bedrock" :> <<"A", "W", "S", " ", "B", "e", "d", "r", "o", "c", "k">>) @@
    ("aws bedrock" :> <<"a", "w", "s", " ", "b", "e", "d", "r", "o", "c", "k">>) @@
    ("Amazon Bedrock" :> <<"A", "m", "a", "z", "o", "n", " ", "B", "e", "d", "r", "o", "c", "k">>) @@
    ("amazon bedrock" :> <<"a", "m", "a", "z", "o", "n", " ", "b", "e", "d", "r", "o", "c", "k">>) @@
    ("Google GenAI" :> <<"G", "o", "o", "g", "l", "e", " ", "G", "e", "n", "A", "I">>) @@
    ("google genai" :> <<"g", "o", "o", "g", "l", "e", " ", "g", "e", "n", "a", "i">>) @@
    ("Google AI" :> <<"G", "o", "o", "g", "l", "e", " ", "A", "I">>) @@
    ("google ai" :> <<"g", "o", "o", "g", "l", "e", " ", "a", "i">>) @@
    ("Vertex AI" :> <<"V", "e", "r", "t", "e", "x", " ", "A", "I">>) @@
    ("vertex ai" :> <<"v", "e", "r", "t", "e", "x", " ", "a", "i">>) @@
    ("Mistral AI" :> <<"M", "i", "s", "t", "r", "a", "l", " ", "A", "I">>) @@
    ("mistral ai" :> <<"m", "i", "s", "t", "r", "a", "l", " ", "a", "i">>) @@
    ("IBM watsonx.ai" :> <<"I", "B", "M", " ", "w", "a", "t", "s", "o", "n", "x", ".", "a", "i">>) @@
    ("ibm watsonx.ai" :> <<"i", "b", "m", " ", "w", "a", "t", "s", "o", "n", "x", ".", "a", "i">>) @@
    ("Open AI" :> <<"O", "p", "e", "n", " ", "A", "I">>) @@
    ("open ai" :> <<"o", "p", "e", "n", " ", "a", "i">>) @@
    ("open_ai" :> <<"o", "p", "e", "n", "_", "a", "i">>) @@
    ("OpenAI2" :> <<"O", "p", "e", "n", "A", "I", "2">>) @@
    ("openai2" :> <<"o", "p", "e", "n", "a", "i", "2">>) @@
    ("ollama" :> <<"o", "l", "l", "a", "m", "a">>) @@
    ("Ollama" :> <<"O", "l", "l", "a", "m", "a">>) @@
    ("Together.AI" :> <<"T", "o", "g", "e", "t", "h", "e", "r", ".", "A", "I">>) @@
    ("together.ai" :> <<"t", "o", "g", "e", "t", "h", "e", "r", ".", "a", "i">>) @@
    ("fireworks-ai" :> <<"f", "i", "r", "e", "w", "o", "r", "k", "s", "-", "a", "i">>) @@
    ("-" :> <<"-">>)

UpperCaseLetters ==
    <<"A", "B", "C", "D", "E", "F", "G", "H", "I", "J", "K", "L", "M",
      "N", "O", "P", "Q", "R", "S", "T", "U", "V", "W", "X", "Y", "Z">>
LowerCaseLetters ==
    <<"a", "b", "c", "d", "e", "f", "g", "h", "i", "j", "k", "l", "m",
      "n", "o", "p", "q", "r", "s", "t", "u", "v", "w", "x", "y", "z">>
DigitChars == {"0", "1", "2", "3", "4", "5", "6", "7", "8", "9"}
Range(f) == {f[i] : i \in DOMAIN f}

\* \p{L}: the ASCII letters and the non-ASCII letters of the strings above
UnicodeLetters == Range(UpperCaseLetters) \cup Range(LowerCaseLetters) \cup {"é"}
\* \p{N}
UnicodeNumbers == DigitChars

\* the characters cs[i], cs[i+1], ... put together
RECURSIVE JoinFrom(_, _)
JoinFrom(cs, i) == IF i > Len(cs) THEN "" ELSE cs[i] \o JoinFrom(cs, i + 1)

\* the string of the characters cs (cs is evaluated once)
Join(cs) == CHOOSE text \in {JoinFrom(chars, 1) : chars \in {cs}} : TRUE

ToLowerChar(c) ==
    IF c \in Range(UpperCaseLetters)
    THEN LowerCaseLetters[CHOOSE i \in DOMAIN UpperCaseLetters : UpperCaseLetters[i] = c]
    ELSE c

\* String.prototype.toLowerCase
ToLowerCase(s) == Join([i \in DOMAIN Chars[s] |-> ToLowerChar(Chars[s][i])])


(***************************************************************************)
(* otel-span.ts: the enumerations the conversion switches on               *)
(***************************************************************************)
MODEL_GENERATION == "model_generation"
TOOL_CALL == "tool_call"
MCP_TOOL_CALL == "mcp_tool_call"
AGENT_RUN == "agent_run"
WORKFLOW_RUN == "workflow_run"
GENERIC == "generic"
WORKFLOW_STEP == "workflow_step"
SpanType ==
    {MODEL_GENERATION, TOOL_CALL, MCP_TOOL_CALL, AGENT_RUN, WORKFLOW_RUN,
     GENERIC, WORKFLOW_STEP}

\* variant: every tool call, local or MCP, given the kind CLIENT
getSpanKindToolsAsClient(type) ==
    IF type \in {MODEL_GENERATION, MCP_TOOL_CALL, TOOL_CALL} THEN "CLIENT" ELSE "INTERNAL"

\* getSpanKind(type)
getSpanKind(type) ==
    IF type \in {MODEL_GENERATION, MCP_TOOL_CALL} THEN "CLIENT" ELSE "INTERNAL"

\* JavaScript a % b (the sign of the result is the sign of a), b > 0
JsRemainder(a, b) == IF a >= 0 THEN a % b ELSE 0 - ((0 - a) % b)

\* dateToHrTime(date), the date given by its getTime() milliseconds:
\* [Math.floor(ms / 1000), (ms % 1000) * 1000000]
dateToHrTime(ms) == <<ms \div 1000, JsRemainder(ms, 1000) * 1000000>>

\* getOperationName(span)
getOperationName(s) ==
    CASE s.type = MODEL_GENERATION -> "chat"
      [] s.type \in {TOOL_CALL, MCP_TOOL_CALL} -> "execute_tool"
      [] s.type = AGENT_RUN -> "invoke_agent"
      [] s.type = WORKFLOW_RUN -> "invoke_workflow"
      [] OTHER -> ToLowerCase(s.type)

\* the characters sanitizeSpanName keeps: [\p{L}\p{N}._ -]
IsSpanNameChar(c) ==
    c \in UnicodeLetters \cup UnicodeNumbers \cup {".", "_", " ", "-"}

\* sanitizeSpanName(name)
sanitizeSpanName(name) == Join(SelectSeq(Chars[name], IsSpanNameChar))

\* span.attributes as an object: attrs?.field
AttrsOf(s) == IF s.attributes = <<>> THEN Empty ELSE s.attributes[1]

\* getSpanIdentifier(span): a string value, or Null for the other types
getSpanIdentifier(s) ==
    CASE s.type = MODEL_GENERATION ->
            Coalesce(Get(AttrsOf(s), "model"), Str("unknown"))
      [] s.type \in {TOOL_CALL, MCP_TOOL_CALL} ->
            Coalesce(Get(AttrsOf(s), "toolId"), Str("unknown"))
      [] s.type = AGENT_RUN ->
            Coalesce(Get(AttrsOf(s), "agentName"),
                     Coalesce(Get(AttrsOf(s), "agentId"), Str("unknown")))
      [] s.type = WORKFLOW_RUN ->
            Coalesce(Get(AttrsOf(s), "workflowId"), Str("unknown"))
      [] OTHER -> Null

\* getSpanName(span)
getSpanName(s) ==
    LET identifier == getSpanIdentifier(s)
    IN  IF Truthy(identifier)
        THEN getOperationName(s) \o " " \o identifier.v
        ELSE sanitizeSpanName(s.name)

(***************************************************************************)
(* otel-span.ts: provider normalization                                    *)
(***************************************************************************)
\* variant: the alias "azureaiopenai" filed under azure.ai.inference
PROVIDER_ALIASES_Misfiled ==
    << [canonical |-> "anthropic", aliases |-> <<"anthropic", "claude">>],
       [canonical |-> "aws.bedrock", aliases |-> <<"awsbedrock", "bedrock", "amazonbedrock">>],
       [canonical |-> "azure.ai.inference",
        aliases |-> <<"azureaiinference", "azureinference", "azureaiopenai">>],
       [canonical |-> "azure.ai.openai",
        aliases |-> <<"azureopenai", "msopenai", "microsoftopenai">>],
       [canonical |-> "cohere", aliases |-> <<"cohere">>],
       [canonical |-> "deepseek", aliases |-> <<"deepseek">>],
       [canonical |-> "gcp.gemini", aliases |-> <<"gcpgemini", "gemini">>],
       [canonical |-> "gcp.gen_ai",
        aliases |-> <<"gcpgenai", "googlegenai", "googlegenai", "googleai">>],
       [canonical |-> "gcp.vertex_ai", aliases |-> <<"gcpvertexai", "vertexai">>],
       [canonical |-> "groq", aliases |-> <<"groq">>],
       [canonical |-> "ibm.watsonx.ai", aliases |-> <<"ibmwatsonxai", "watsonx", "watsonxai">>],
       [canonical |-> "mistral_ai", aliases |-> <<"mistral", "mistralai">>],
       [canonical |-> "openai", aliases |-> <<"openai", "oai">>],
       [canonical |-> "perplexity", aliases |-> <<"perplexity", "pplx">>],
       [canonical |-> "x_ai", aliases |-> <<"xai", "x-ai", "x_ai", "x.com ai">>] >>

\* PROVIDER_ALIASES, in the order of Object.entries
PROVIDER_ALIASES ==
    << [canonical |-> "anthropic", aliases |-> <<"anthropic", "claude">>],
       [canonical |-> "aws.bedrock", aliases |-> <<"awsbedrock", "bedrock", "amazonbedrock">>],
       [canonical |-> "azure.ai.inference", aliases |-> <<"azureaiinference", "azureinference">>],
       [canonical |-> "azure.ai.openai",
        aliases |-> <<"azureaiopenai", "azureopenai", "msopenai", "microsoftopenai">>],
       [canonical |-> "cohere", aliases |-> <<"cohere">>],
       [canonical |-> "deepseek", aliases |-> <<"deepseek">>],
       [canonical |-> "gcp.gemini", aliases |-> <<"gcpgemini", "gemini">>],
       [canonical |-> "gcp.gen_ai",
        aliases |-> <<"gcpgenai", "googlegenai", "googlegenai", "googleai">>],
       [canonical |-> "gcp.vertex_ai", aliases |-> <<"gcpvertexai", "vertexai">>],
       [canonical |-> "groq", aliases |-> <<"groq">>],
       [canonical |-> "ibm.watsonx.ai", aliases |-> <<"ibmwatsonxai", "watsonx", "watsonxai">>],
       [canonical |-> "mistral_ai", aliases |-> <<"mistral", "mistralai">>],
       [canonical |-> "openai", aliases |-> <<"openai", "oai">>],
       [canonical |-> "perplexity", aliases |-> <<"perplexity", "pplx">>],
       [canonical |-> "x_ai", aliases |-> <<"xai", "x-ai", "x_ai", "x.com ai">>] >>

\* the characters /[^a-z0-9]/g leaves in place
IsLowerAlnum(c) == c \in Range(LowerCaseLetters) \cup DigitChars

\* normalizeProviderString(input)
normalizeProviderString(input) ==
    Join(SelectSeq([i \in DOMAIN Chars[input] |-> ToLowerChar(Chars[input][i])],
                   IsLowerAlnum))

\* variant: the provider name returned unchanged when no alias matches
normalizeProviderKeepsCase(providerName) ==
    CHOOSE result \in
        {LET Matches(i) == \E j \in DOMAIN PROVIDER_ALIASES[i].aliases :
                               PROVIDER_ALIASES[i].aliases[j] = normalized
             hits == {i \in DOMAIN PROVIDER_ALIASES : Matches(i)}
         IN  IF hits # {}
             THEN PROVIDER_ALIASES[CHOOSE i \in hits : \A k \in hits : i <= k].canonical
             ELSE providerName
            : normalized \in {normalizeProviderString(providerName)}} : TRUE

\* normalizeProvider(providerName): the first entry with a matching alias
\* (normalized is computed once, as the const of line 447)
normalizeProvider(providerName) ==
    CHOOSE result \in
        {LET Matches(i) == \E j \in DOMAIN PROVIDER_ALIASES[i].aliases :
                               PROVIDER_ALIASES[i].aliases[j] = normalized
             hits == {i \in DOMAIN PROVIDER_ALIASES : Matches(i)}
         IN  IF hits # {}
             THEN PROVIDER_ALIASES[CHOOSE i \in hits : \A k \in hits : i <= k].canonical
             ELSE ToLowerCase(providerName)
            : normalized \in {normalizeProviderString(providerName)}} : TRUE

(***************************************************************************)
(* otel-span.ts: getAttributes, stage by stage                             *)
(***************************************************************************)
\* a !== undefined
Defined(x) == x.t # "undefined"

\* typeof x === 'string' ? x : JSON.stringify(x)
ToText(x) == IF x.t = "string" THEN x.v ELSE Stringify(x)

\* convertMastraMessagesToGenAIMessages (gen-ai-messages.ts): a text derived
\* from the serialized payload
convertMastraMessagesToGenAIMessages(text) == "genai-messages(" \o text \o ")"

PutIf(cond, m, k, x) == IF cond THEN Put(m, k, x) ELSE m

\* lines 213-220: gen_ai.operation.name and mastra.span.type
BaselineAttributes(s) ==
    Put(Put(Empty, "gen_ai.operation.name", Str(getOperationName(s))),
        "mastra.span.type", Str(s.type))

\* lines 224-234: span.input
InputAttributes(a, s) ==
    LET spanType == ToLowerCase(s.type)
        inputStr == ToText(s.input)
    IN  IF ~Defined(s.input) THEN a
        ELSE IF s.type = MODEL_GENERATION
             THEN Put(a, "gen_ai.input.messages",
                      Str(convertMastraMessagesToGenAIMessages(inputStr)))
        ELSE IF s.type \in {TOOL_CALL, MCP_TOOL_CALL}
             THEN Put(a, "gen_ai.tool.call.arguments", Str(inputStr))
        ELSE Put(a, "mastra." \o spanType \o ".input", Str(inputStr))

\* lines 236-248: span.output
OutputAttributes(a, s) ==
    LET spanType == ToLowerCase(s.type)
        outputStr == ToText(s.output)
    IN  IF ~Defined(s.output) THEN a
        ELSE IF s.type = MODEL_GENERATION
             THEN Put(a, "gen_ai.output.messages",
                      Str(convertMastraMessagesToGenAIMessages(outputStr)))
        ELSE IF s.type \in {TOOL_CALL, MCP_TOOL_CALL}
             THEN Put(a, "gen_ai.tool.call.result", Str(outputStr))
        ELSE Put(a, "mastra." \o spanType \o ".output", Str(outputStr))

\* lines 263-281: modelAttrs.usage
UsageAttributes(a, m) ==
    LET inputTokens == Coalesce(Get(m, "usage.inputTokens"), Get(m, "usage.promptTokens"))
        outputTokens ==
            Coalesce(Get(m, "usage.outputTokens"), Get(m, "usage.completionTokens"))
        a1 == PutIf(Defined(inputTokens), a, "gen_ai.usage.input_tokens", inputTokens)
        a2 == PutIf(Defined(outputTokens), a1, "gen_ai.usage.output_tokens", outputTokens)
        a3 == PutIf(Defined(Get(m, "usage.reasoningTokens")), a2,
                    "gen_ai.usage.reasoning_tokens", Get(m, "usage.reasoningTokens"))
        a4 == PutIf(Defined(Get(m, "usage.cachedInputTokens")), a3,
                    "gen_ai.usage.cached_input_tokens", Get(m, "usage.cachedInputTokens"))
    IN  IF Truthy(Get(m, "usage")) THEN a4 ELSE a

\* lines 283-309: modelAttrs.parameters
ParameterAttributes(a, m) ==
    LET P(name) == Get(m, "parameters." \o name)
        a1 == PutIf(Defined(P("temperature")), a,
                    "gen_ai.request.temperature", P("temperature"))
        a2 == PutIf(Defined(P("maxOutputTokens")), a1,
                    "gen_ai.request.max_tokens", P("maxOutputTokens"))
        a3 == PutIf(Defined(P("topP")), a2, "gen_ai.request.top_p", P("topP"))
        a4 == PutIf(Defined(P("topK")), a3, "gen_ai.request.top_k", P("topK"))
        a5 == PutIf(Defined(P("presencePenalty")), a4,
                    "gen_ai.request.presence_penalty", P("presencePenalty"))
        a6 == PutIf(Defined(P("frequencyPenalty")), a5,
                    "gen_ai.request.frequency_penalty", P("frequencyPenalty"))
        a7 == PutIf(Truthy(P("stopSequences")), a6,
                    "gen_ai.request.stop_sequences", Str(Stringify(P("stopSequences"))))
        a8 == PutIf(Truthy(P("seed")), a7, "gen_ai.request.seed", P("seed"))
    IN  IF Truthy(Get(m, "parameters")) THEN a8 ELSE a

\* lines 250-329: the MODEL_GENERATION block
ModelAttributes(a, s) ==
    LET m == AttrsOf(s)
        a1 == PutIf(Truthy(Get(m, "model")), a, "gen_ai.request.model", Get(m, "model"))
        a2 == PutIf(Truthy(Get(m, "provider")), a1, "gen_ai.provider.name",
                    Str(normalizeProvider(Get(m, "provider").v)))
        a3 == UsageAttributes(a2, m)
        a4 == ParameterAttributes(a3, m)
        a5 == PutIf(Truthy(Get(m, "finishReason")), a4, "gen_ai.response.finish_reasons",
                    Str("[\"" \o Get(m, "finishReason").v \o "\"]"))
        a6 == PutIf(Truthy(Get(m, "responseModel")), a5,
                    "gen_ai.response.model", Get(m, "responseModel"))
        a7 == PutIf(Truthy(Get(m, "responseId")), a6,
                    "gen_ai.response.id", Get(m, "responseId"))
        a8 == PutIf(Truthy(Get(m, "serverAddress")), a7,
                    "server.address", Get(m, "serverAddress"))
        a9 == PutIf(Defined(Get(m, "serverPort")), a8, "server.port", Get(m, "serverPort"))
    IN  IF s.type = MODEL_GENERATION /\ s.attributes # <<>> THEN a9 ELSE a

\* lines 331-355: the TOOL_CALL / MCP_TOOL_CALL block
ToolAttributes(a, s) ==
    LET m == AttrsOf(s)
        a1 == PutIf(Truthy(Get(m, "toolId")), a, "gen_ai.tool.name", Get(m, "toolId"))
        a2 == IF s.type = MCP_TOOL_CALL
              THEN PutIf(Truthy(Get(m, "mcpServer")), a1,
                         "server.address", Get(m, "mcpServer"))
              ELSE PutIf(Truthy(Get(m, "toolDescription")), a1,
                         "gen_ai.tool.description", Get(m, "toolDescription"))
    IN  IF s.type \in {TOOL_CALL, MCP_TOOL_CALL} /\ s.attributes # <<>> THEN a2 ELSE a

\* lines 357-380: the AGENT_RUN block
AgentAttributes(a, s) ==
    LET m == AttrsOf(s)
        spanType == ToLowerCase(s.type)
        a1 == PutIf(Truthy(Get(m, "agentId")), a, "gen_ai.agent.id", Get(m, "agentId"))
        a2 == PutIf(Truthy(Get(m, "agentName")), a1,
                    "gen_ai.agent.name", Get(m, "agentName"))
        a3 == PutIf(Truthy(Get(m, "conversationId")), a2,
                    "gen_ai.conversation.id", Get(m, "conversationId"))
        a4 == PutIf(Truthy(Get(m, "maxSteps")), a3,
                    "mastra." \o spanType \o ".max_steps", Get(m, "maxSteps"))
        a5 == PutIf(Truthy(Get(m, "availableTools")), a4,
                    "gen_ai.tool.definitions", Str(Stringify(Get(m, "availableTools"))))
        a6 == Put(a5, "gen_ai.system_instructions", Get(m, "instructions"))
    IN  IF s.type = AGENT_RUN /\ s.attributes # <<>> THEN a6 ELSE a

\* lines 382-392: span.errorInfo
ErrorAttributes(a, s) ==
    LET e == s.errorInfo[1]
        a1 == Put(a, "error.type", OrElse(e.id, Str("unknown")))
        a2 == Put(a1, "error.message", e.message)
        a3 == PutIf(Truthy(e.domain), a2, "error.domain", e.domain)
        a4 == PutIf(Truthy(e.category), a3, "error.category", e.category)
    IN  IF s.errorInfo # <<>> THEN a4 ELSE a

\* the attributes as they stand when the metadata pass begins (lines 213-392)
AttributesBeforeMetadata(s) ==
    ErrorAttributes(
        AgentAttributes(
            ToolAttributes(
                ModelAttributes(
                    OutputAttributes(InputAttributes(BaselineAttributes(s), s), s),
                    s),
                s),
            s),
        s)

\* line 398: the guard of the metadata pass, "skip if attribute already exists"
AttributeMissing(a, k) == ~Truthy(Get(a, k))

\* variant: the entry written under its prefixed key, attributes[key] = value
MetadataEntryUnswapped(a, k, v) ==
    LET value == IF v.t = "object" THEN Stringify(v) ELSE v.v
        key == "mastra.metadata." \o k
    IN  IF AttributeMissing(a, k)
        THEN IF Nullish(v) THEN a ELSE Put(a, key, Str(value))
        ELSE a

\* lines 396-407: the callback of the metadata forEach, for the entry [k, v]
MetadataEntry(a, k, v) ==
    LET value == IF v.t = "object" THEN Stringify(v) ELSE v.v
        key == "mastra.metadata." \o k
    IN  IF AttributeMissing(a, k)
        THEN IF Nullish(v) THEN a ELSE Put(a, value, Str(key))
        ELSE a

\* Object.entries(span.metadata).forEach(...), the entries in object order
RECURSIVE MetadataPass(_, _)
MetadataPass(a, entries) ==
    IF entries = <<>> THEN a
    ELSE MetadataPass(MetadataEntry(a, Head(entries).k, Head(entries).v), Tail(entries))

\* lines 394-408
MetadataAttributes(a, s) ==
    IF s.metadata # <<>> THEN MetadataPass(a, s.metadata[1]) ELSE a

\* getAttributes(span)
getAttributes(s) == MetadataAttributes(AttributesBeforeMetadata(s), s)

\* variant: the end time tested by its millisecond value
EndedWhenEndTimeNonZero(s) == s.endTime # <<>> /\ s.endTime[1] # 0

(***************************************************************************)
(* otel-span.ts: the OtelSpan constructor                                  *)
(***************************************************************************)
\* lines 51-54: startTime, endTime, ended
StartTimeOf(s) == dateToHrTime(s.startTime)
EndTimeOf(s) == IF s.endTime # <<>> THEN dateToHrTime(s.endTime[1]) ELSE StartTimeOf(s)
EndedOf(s) == s.endTime # <<>>

\* lines 56-62: duration
DurationOf(s) ==
    IF s.endTime # <<>>
    THEN LET durationMs == s.endTime[1] - s.startTime
         IN  <<durationMs \div 1000, JsRemainder(durationMs, 1000) * 1000000>>
    ELSE <<0, 0>>

\* variants of the status derivation
StatusEndTimeFirst(s) ==
    IF s.endTime # <<>>
    THEN [code |-> "OK", message |-> Undefined]
    ELSE IF s.errorInfo # <<>>
         THEN [code |-> "ERROR", message |-> s.errorInfo[1].message]
         ELSE [code |-> "UNSET", message |-> Undefined]
StatusOkWithoutError(s) ==
    IF s.errorInfo # <<>>
    THEN [code |-> "ERROR", message |-> s.errorInfo[1].message]
    ELSE [code |-> "OK", message |-> Undefined]

\* lines 64-88: status
StatusOf(s) ==
    IF s.errorInfo # <<>>
    THEN [code |-> "ERROR", message |-> s.errorInfo[1].message]
    ELSE IF s.endTime # <<>>
         THEN [code |-> "OK", message |-> Undefined]
         ELSE [code |-> "UNSET", message |-> Undefined]

\* line 77: span.errorInfo.details?.stack
StackOf(e) == IF e.details = <<>> THEN Undefined ELSE Get(e.details[1], "stack")

\* variant: the exception event timed at the end of the span
EventsTimedAtEnd(s) ==
    IF s.errorInfo # <<>>
    THEN LET e == s.errorInfo[1]
             base == Put(Put(Empty, "exception.message", e.message),
                         "exception.type", Str("Error"))
         IN  << [name |-> "exception",
                 attributes |-> PutIf(Truthy(StackOf(e)), base,
                                      "exception.stacktrace", StackOf(e)),
                 time |-> EndTimeOf(s),
                 droppedAttributesCount |-> 0] >>
    ELSE <<>>

\* lines 71-83: the events pushed by the constructor
EventsOf(s) ==
    IF s.errorInfo # <<>>
    THEN LET e == s.errorInfo[1]
             base == Put(Put(Empty, "exception.message", e.message),
                         "exception.type", Str("Error"))
         IN  << [name |-> "exception",
                 attributes |-> PutIf(Truthy(StackOf(e)), base,
                                      "exception.stacktrace", StackOf(e)),
                 time |-> StartTimeOf(s),
                 droppedAttributesCount |-> 0] >>
    ELSE <<>>

\* variant: a span id made up by the converter
SpanContextGenerated(s) ==
    [traceId |-> s.traceId, spanId |-> "generated", traceFlags |-> "SAMPLED",
     isRemote |-> FALSE]

\* lines 90-96: spanContext()
SpanContextOf(s) ==
    [traceId |-> s.traceId, spanId |-> s.id, traceFlags |-> "SAMPLED", isRemote |-> FALSE]

\* lines 98-106: parentSpanContext, <<>> when it is left undefined
ParentSpanContextOf(s) ==
    IF Truthy(s.parentSpanId)
    THEN << [traceId |-> s.traceId, spanId |-> s.parentSpanId.v,
             traceFlags |-> "SAMPLED", isRemote |-> FALSE] >>
    ELSE <<>>

\* new OtelSpan({span, scope, resource}); p.resource is <<>> or <<r>>
OtelSpan(p) ==
    [name |-> getSpanName(p.span),
     kind |-> getSpanKind(p.span.type),
     attributes |-> getAttributes(p.span),
     startTime |-> StartTimeOf(p.span),
     endTime |-> EndTimeOf(p.span),
     ended |-> EndedOf(p.span),
     duration |-> DurationOf(p.span),
     status |-> StatusOf(p.span),
     events |-> EventsOf(p.span),
     links |-> <<>>,
     spanContext |-> SpanContextOf(p.span),
     parentSpanContext |-> ParentSpanContextOf(p.span),
     resource |-> IF p.resource # <<>> THEN p.resource[1] ELSE Empty,
     instrumentationScope |-> p.scope]

(***************************************************************************)
(* The exported spans the constructor is applied to                        *)
(***************************************************************************)
BaseSpan ==
    [id |-> "span-1", traceId |-> "trace-1", parentSpanId |-> Undefined,
     type |-> GENERIC, name |-> "my span", startTime |-> 1500, endTime |-> <<>>,
     input |-> Undefined, output |-> Undefined, attributes |-> <<>>,
     errorInfo |-> <<>>, metadata |-> <<>>]

SpanIds == {"span-1", "span-2"}
ParentSpanIds == {Undefined, Str(""), Str("span-0")}
StartTimes == {0, 1500}
EndTimes == {<<>>, <<0>>, <<2750>>}
SpanNames == {"my span", "step: a/b #1", "café_1.0-x", ""}

ErrorInfo(message, id, domain, category, details) ==
    << [message |-> message, id |-> id, domain |-> domain,
        category |-> category, details |-> details] >>

ErrorInfos ==
    {<<>>,
     ErrorInfo(Str("boom"), Undefined, Undefined, Undefined, <<>>),
     ErrorInfo(Str("boom"), Str("E42"), Str("TOOL"), Str("USER"),
               <<("stack" :> Str("Error: boom at f"))>>),
     ErrorInfo(Str(""), Str(""), Undefined, Undefined, <<("stack" :> Str(""))>>),
     ErrorInfo(Str("boom"), Undefined, Undefined, Undefined, <<("code" :> Num("7"))>>)}

\* span.attributes by span type: <<>> when the span has none
ModelPayload1 ==
    ("model" :> Str("gpt-4")) @@ ("provider" :> Str("OpenAI")) @@
    ("usage" :> Obj("{}")) @@ ("usage.inputTokens" :> Num("0")) @@
    ("usage.outputTokens" :> Num("12")) @@
    ("parameters" :> Obj("{}")) @@ ("parameters.temperature" :> Num("0")) @@
    ("parameters.maxOutputTokens" :> Num("100")) @@ ("parameters.seed" :> Num("0")) @@
    ("parameters.stopSequences" :> Obj("[\"END\"]")) @@
    ("finishReason" :> Str("stop")) @@ ("serverPort" :> Num("0"))
ModelPayload2 ==
    ("model" :> Str("")) @@ ("provider" :> Str("my-custom-llm")) @@
    ("usage" :> Obj("{}")) @@ ("usage.promptTokens" :> Num("5")) @@
    ("usage.completionTokens" :> Num("7")) @@ ("usage.reasoningTokens" :> Num("3")) @@
    ("parameters" :> Obj("{}")) @@ ("parameters.topP" :> Num("1")) @@
    ("parameters.seed" :> Num("42")) @@
    ("responseModel" :> Str("gpt-4-0613")) @@ ("responseId" :> Str("resp-1")) @@
    ("serverAddress" :> Str("api.example.com")) @@ ("serverPort" :> Num("443"))
ToolPayload == ("toolId" :> Str("search")) @@ ("toolDescription" :> Str("web search"))
McpPayload == ("toolId" :> Str("search")) @@ ("mcpServer" :> Str("mcp.local"))
AgentPayload1 ==
    ("agentId" :> Str("agent-1")) @@ ("agentName" :> Str("Router")) @@
    ("instructions" :> Str("be brief")) @@ ("maxSteps" :> Num("5")) @@
    ("availableTools" :> Obj("[\"search\"]")) @@ ("conversationId" :> Str("conv-1"))
AgentPayload2 == ("agentId" :> Str("agent-1")) @@ ("maxSteps" :> Num("0"))
WorkflowPayload == ("workflowId" :> Str("wf-1"))

PayloadsOf(type) ==
    CASE type = MODEL_GENERATION -> {<<>>, <<ModelPayload1>>, <<ModelPayload2>>}
      [] type = TOOL_CALL -> {<<>>, <<ToolPayload>>}
      [] type = MCP_TOOL_CALL -> {<<>>, <<McpPayload>>}
      [] type = AGENT_RUN -> {<<>>, <<Empty>>, <<AgentPayload1>>, <<AgentPayload2>>}
      [] type = WORKFLOW_RUN -> {<<>>, <<WorkflowPayload>>}
      [] OTHER -> {<<>>}

Payloads == {Undefined, Str(""), Str("hello"), Obj("{\"q\":1}")}

\* span.metadata: <<>> when absent, else <<entries>>, the entries in object order
MetaKeys == {"userId", "mastra.span.type", "gen_ai.usage.input_tokens"}
MetaValues == {Str("u1"), Str("mastra.span.type"), Null, Undefined, Obj("{\"a\":1}")}
MetaEntries == [k : MetaKeys, v : MetaValues]
MetaSeqs(n) ==
    {es \in [1..n -> MetaEntries] : \A i, j \in 1..n : i # j => es[i].k # es[j].k}
Metadatas == {<<>>} \cup {<<es>> : es \in UNION {MetaSeqs(n) : n \in 0..MaxMeta}}

\* spans that vary identity, timing and error
IdentitySpans ==
    {[BaseSpan EXCEPT !.id = i, !.parentSpanId = p, !.type = ty, !.startTime = st,
                      !.endTime = en, !.errorInfo = e] :
        i \in SpanIds, p \in ParentSpanIds, ty \in SpanType, st \in StartTimes,
        en \in EndTimes, e \in ErrorInfos}

\* spans that vary type, name, payloads and error
NamedSpans ==
    UNION {{[BaseSpan EXCEPT !.type = ty, !.name = n, !.attributes = a, !.input = i,
                             !.output = o, !.errorInfo = e] :
               n \in SpanNames, a \in PayloadsOf(ty), i \in Payloads,
               o \in {Undefined, Str("done")}, e \in ErrorInfos} : ty \in SpanType}

\* spans that vary type, attributes and metadata
MetadataSpans ==
    UNION {{[BaseSpan EXCEPT !.type = ty, !.attributes = a, !.metadata = md] :
               a \in PayloadsOf(ty), md \in Metadatas} : ty \in SpanType}

\* spans that vary the start and the end time, in milliseconds since the
\* epoch: dates before 1970 and end times before the start time included
Times == {0 - 2500, 0 - 1500, 0 - 1000, 0 - 1, 0, 1, 999, 1000, 2750}
TimedSpans ==
    {[BaseSpan EXCEPT !.startTime = st, !.endTime = en] :
        st \in Times, en \in {<<>>} \cup {<<t>> : t \in Times}}

ExportedSpans == IdentitySpans \cup NamedSpans \cup MetadataSpans \cup TimedSpans

\* the provider names handed to normalizeProvider in SpecProvider: every
\* canonical name and alias as written, in capitals and capitalized, and
\* names with separators, with no alias, and the empty name
ProviderNames ==
    {"anthropic", "ANTHROPIC", "Anthropic", "claude", "CLAUDE", "Claude",
     "aws.bedrock", "AWS.BEDROCK", "Aws.bedrock", "awsbedrock", "AWSBEDROCK",
     "Awsbedrock", "bedrock", "BEDROCK", "Bedrock", "amazonbedrock",
     "AMAZONBEDROCK", "Amazonbedrock", "azure.ai.inference",
     "AZURE.AI.INFERENCE", "Azure.ai.inference", "azureaiinference",
     "AZUREAIINFERENCE", "Azureaiinference", "azureinference",
     "AZUREINFERENCE", "Azureinference", "azure.ai.openai",
     "AZURE.AI.OPENAI", "Azure.ai.openai", "azureaiopenai", "AZUREAIOPENAI",
     "Azureaiopenai", "azureopenai", "AZUREOPENAI", "Azureopenai",
     "msopenai", "MSOPENAI", "Msopenai", "microsoftopenai",
     "MICROSOFTOPENAI", "Microsoftopenai", "cohere", "COHERE", "Cohere",
     "deepseek", "DEEPSEEK", "Deepseek", "gcp.gemini", "GCP.GEMINI",
     "Gcp.gemini", "gcpgemini", "GCPGEMINI", "Gcpgemini", "gemini", "GEMINI",
     "Gemini", "gcp.gen_ai", "GCP.GEN_AI", "Gcp.gen_ai", "gcpgenai",
     "GCPGENAI", "Gcpgenai", "googlegenai", "GOOGLEGENAI", "Googlegenai",
     "googleai", "GOOGLEAI", "Googleai", "gcp.vertex_ai", "GCP.VERTEX_AI",
     "Gcp.vertex_ai", "gcpvertexai", "GCPVERTEXAI", "Gcpvertexai",
     "vertexai", "VERTEXAI", "Vertexai", "groq", "GROQ", "Groq",
     "ibm.watsonx.ai", "IBM.WATSONX.AI", "Ibm.watsonx.ai", "ibmwatsonxai",
     "IBMWATSONXAI", "Ibmwatsonxai", "watsonx", "WATSONX", "Watsonx",
     "watsonxai", "WATSONXAI", "Watsonxai", "mistral_ai", "MISTRAL_AI",
     "Mistral_ai", "mistral", "MISTRAL", "Mistral", "mistralai", "MISTRALAI",
     "Mistralai", "openai", "OPENAI", "Openai", "oai", "OAI", "Oai",
     "perplexity", "PERPLEXITY", "Perplexity", "pplx", "PPLX", "Pplx",
     "x_ai", "X_AI", "X_ai", "xai", "XAI", "Xai", "x-ai", "X-AI", "X-ai",
     "x.com ai", "X.COM AI", "X.com ai", "OpenAI", "my-custom-llm",
     "My-Custom-LLM", "X.com AI", "Azure OpenAI", "AWS Bedrock",
     "Amazon Bedrock", "Google GenAI", "Google AI", "Vertex AI",
     "Mistral AI", "IBM watsonx.ai", "Open AI", "open_ai", "OpenAI2",
     "ollama", "Ollama", "Together.AI", "fireworks-ai", "-", ""}

\* the resource and scope handed to the constructor in SpecSpan
SomeResource == ("service.name" :> "mastra-service")
SomeScope == [name |-> "@mastra/otel-exporter", version |-> "unknown"]

(***************************************************************************)
(* span-converter.ts: SpanConverter                                        *)
(***************************************************************************)
Calls == 1..MaxCalls
Attempts == 1..MaxCalls

\* the constructor arguments the instance may have been built with
ParamsSet ==
    {[packageName |-> "@mastra/otel-exporter", serviceName |-> sn,
      resourceAttributes |-> ra] :
        sn \in {Undefined, Str("my-service")},
        ra \in {<<>>, <<("service.name" :> "override") @@ ("deployment" :> "prod")>>}}

\* the spans handed to convertSpan
ConverterSpans ==
    {BaseSpan,
     [BaseSpan EXCEPT !.id = "span-2", !.parentSpanId = Str("span-1"),
                      !.type = MODEL_GENERATION, !.attributes = <<ModelPayload1>>,
                      !.endTime = <<2750>>]}

\* the versions the installed manifests carry
InstalledVersion == ("@mastra/otel-exporter" :> "0.9.1") @@ ("@mastra/core" :> "1.0.0")

\* getPackageVersion(pkgName): pkgJson.version, or undefined when the manifest
\* cannot be resolved, read or parsed, or carries no version
getPackageVersion(pkgName) == {Str(InstalledVersion[pkgName]), Undefined}

\* variant: the version used as the lookup returned it
VersionAsLookedUp(v) == v

\* lines 65-69: (await getPackageVersion(...)) ?? "unknown"
VersionOrUnknown(v) == Coalesce(v, Str("unknown"))

\* line 60: initIfNeeded starts the resolution only when no promise is stored
NeedsInitAlways(p) == TRUE
NeedsInit(p) == p = 0

\* line 64: this.initPromise = (async () => {...})()
InitPromiseNotStored(id) == 0
InitPromiseAfterStart(id) == id

\* lines 71-84: the resource built from the two versions and the params
ResourceOf(p, packageVersion, serviceVersion) ==
    LET defaults ==
            ("service.name" :> OrElse(p.serviceName, Str("mastra-service")).v) @@
            ("service.version" :> serviceVersion.v) @@
            ("telemetry.sdk.name" :> p.packageName) @@
            ("telemetry.sdk.version" :> packageVersion.v) @@
            ("telemetry.sdk.language" :> "nodejs")
    IN  IF p.resourceAttributes # <<>>
        THEN Merge(defaults, p.resourceAttributes[1])
        ELSE defaults

\* lines 87-90: the instrumentation scope
ScopeOf(p, packageVersion) == [name |-> p.packageName, version |-> packageVersion.v]

\* line 102: the safety net of convertSpan
ContextSet(r, s) == r # <<>> /\ s # <<>>

\* convertSpan(span), up to its await: initIfNeeded() runs synchronously, and
\* starts the async body (up to its first await) when no promise is stored
ConvertSpan(c, s) ==
    /\ calls[c].pc = "idle"
    /\ \A b \in Calls : b < c => calls[b].pc # "idle"
    /\ LET start == NeedsInit(initPromise)
           id == initStarts + 1
           promise == IF start THEN InitPromiseAfterStart(id) ELSE initPromise
       IN  /\ start => id \in Attempts
           /\ initStarts' = IF start THEN id ELSE initStarts
           /\ lookupCalls' = IF start THEN lookupCalls + 1 ELSE lookupCalls
           /\ attempts' = IF start
                          THEN [attempts EXCEPT ![id].pc = "awaitPackageVersion"]
                          ELSE attempts
           /\ initPromise' = promise
           /\ calls' = [calls EXCEPT ![c] =
                            [pc |-> "awaitInit", span |-> s,
                             awaited |-> IF start THEN id ELSE initPromise,
                             out |-> <<>>]]
    /\ UNCHANGED <<params, resource, scope, resourceWrites, scopeWrites, span, otel, providerVars>>

\* lines 65-69: the first lookup settles, the second is started
PackageVersionResolved(a, v) ==
    /\ attempts[a].pc = "awaitPackageVersion"
    /\ attempts' = [attempts EXCEPT ![a].pc = "awaitServiceVersion",
                                    ![a].packageVersion = VersionOrUnknown(v),
                                    ![a].lookups = Append(@, v)]
    /\ lookupCalls' = lookupCalls + 1
    /\ UNCHANGED <<params, resource, scope, initPromise, calls, initStarts,
                   resourceWrites, scopeWrites, span, otel, providerVars>>

\* lines 68-91: the second lookup settles, resource and scope are assigned and
\* the promise is fulfilled
InitCompletes(a, v) ==
    /\ attempts[a].pc = "awaitServiceVersion"
    /\ LET serviceVersion == VersionOrUnknown(v)
       IN  /\ resource' = <<ResourceOf(params, attempts[a].packageVersion, serviceVersion)>>
           /\ scope' = <<ScopeOf(params, attempts[a].packageVersion)>>
           /\ attempts' = [attempts EXCEPT ![a].pc = "fulfilled",
                                           ![a].serviceVersion = serviceVersion,
                                           ![a].lookups = Append(@, v)]
    /\ resourceWrites' = resourceWrites + 1
    /\ scopeWrites' = scopeWrites + 1
    /\ UNCHANGED <<params, initPromise, calls, initStarts, lookupCalls, span, otel, providerVars>>

\* lines 71-84: resourceFromAttributes or merge throws, the promise is rejected
InitThrows(a) ==
    /\ attempts[a].pc = "awaitServiceVersion"
    /\ attempts' = [attempts EXCEPT ![a].pc = "rejected"]
    /\ UNCHANGED <<params, resource, scope, initPromise, calls, initStarts,
                   lookupCalls, resourceWrites, scopeWrites, span, otel, providerVars>>

\* variant: only the fulfilment of the promise reaches the awaiting call
PromiseSettledWhenFulfilled(a) == attempts[a].pc = "fulfilled"

\* line 100: await this.initIfNeeded() continues when the promise is settled,
\* fulfilled or rejected
PromiseSettled(a) == attempts[a].pc \in {"fulfilled", "rejected"}

\* lines 100-112: the awaited promise has settled and convertSpan continues
ConvertSpanResumes(c) ==
    /\ calls[c].pc = "awaitInit"
    /\ PromiseSettled(calls[c].awaited)
    /\ calls' = [calls EXCEPT ![c] =
           IF attempts[calls[c].awaited].pc = "rejected"
           THEN [@ EXCEPT !.pc = "threw"]
           ELSE IF ~ContextSet(resource, scope)
           THEN [@ EXCEPT !.pc = "threw"]
           ELSE [@ EXCEPT !.pc = "returned",
                          !.out = <<OtelSpan([span |-> calls[c].span,
                                              resource |-> resource,
                                              scope |-> scope[1]])>>]]
    /\ UNCHANGED <<params, resource, scope, initPromise, attempts, initStarts,
                   lookupCalls, resourceWrites, scopeWrites, span, otel, providerVars>>

\* new SpanConverter(params): no async work in the constructor
ConverterInit ==
    /\ resource = <<>>
    /\ scope = <<>>
    /\ initPromise = 0
    /\ attempts = [a \in Attempts |->
                      [pc |-> "unused", packageVersion |-> Undefined,
                       serviceVersion |-> Undefined, lookups |-> <<>>]]
    /\ calls = [c \in Calls |->
                   [pc |-> "idle", span |-> BaseSpan, awaited |-> 0, out |-> <<>>]]
    /\ initStarts = 0
    /\ lookupCalls = 0
    /\ resourceWrites = 0
    /\ scopeWrites = 0

Init ==
    /\ params \in ParamsSet
    /\ ConverterInit
    /\ span = BaseSpan
    /\ otel = <<>>
    /\ providerInput = ""
    /\ providerResults = <<>>

Next ==
    \/ \E c \in Calls, s \in ConverterSpans : ConvertSpan(c, s)
    \/ \E a \in Attempts : \E v \in getPackageVersion(params.packageName) :
           PackageVersionResolved(a, v)
    \/ \E a \in Attempts : \E v \in getPackageVersion("@mastra/core") :
           InitCompletes(a, v)
    \/ \E a \in Attempts : InitThrows(a)
    \/ \E c \in Calls : ConvertSpanResumes(c)

Spec == Init /\ [][Next]_vars

\* a continuation that is ready runs: the body of the initialization goes on
\* after a lookup has settled, a call goes on after the promise it awaits has
\* settled
Continue ==
    \/ \E a \in Attempts : \E v \in getPackageVersion(params.packageName) :
           PackageVersionResolved(a, v)
    \/ \E a \in Attempts : \E v \in getPackageVersion("@mastra/core") :
           InitCompletes(a, v)
    \/ \E a \in Attempts : InitThrows(a)
    \/ \E c \in Calls : ConvertSpanResumes(c)

\* The event loop keeps running ready continuations for as long as there is
\* one (the lookups are synchronous file reads behind an async function, so
\* nothing waits on the outside world).  Issuing a call is left to the caller.
Fairness == WF_vars(Continue)

SpecFair == Spec /\ Fairness

(***************************************************************************)
(* SpecSpan: the constructor applied to one exported span                  *)
(***************************************************************************)
InitSpan ==
    /\ params \in {p \in ParamsSet : p.serviceName = Undefined /\ p.resourceAttributes = <<>>}
    /\ ConverterInit
    /\ span \in ExportedSpans
    /\ otel = <<>>
    /\ providerInput = ""
    /\ providerResults = <<>>

\* new OtelSpan({span, resource, scope})
Construct ==
    /\ otel = <<>>
    /\ otel' = <<OtelSpan([span |-> span, resource |-> <<SomeResource>>,
                           scope |-> SomeScope])>>
    /\ UNCHANGED <<converterVars, span, providerVars>>

NextSpan == Construct

SpecSpan == InitSpan /\ [][NextSpan]_vars

(***************************************************************************)
(* SpecProvider: normalizeProvider applied to one provider name            *)
(***************************************************************************)
InitProvider ==
    /\ params \in {p \in ParamsSet : p.serviceName = Undefined /\ p.resourceAttributes = <<>>}
    /\ ConverterInit
    /\ span = BaseSpan
    /\ otel = <<>>
    /\ providerInput \in ProviderNames
    /\ providerResults = <<>>

\* normalizeProvider(providerInput), then normalizeProvider of the last result
Normalize ==
    /\ Len(providerResults) < MaxApplications
    /\ providerResults' =
           Append(providerResults,
                  normalizeProvider(IF providerResults = <<>> THEN providerInput
                                    ELSE providerResults[Len(providerResults)]))
    /\ UNCHANGED <<converterVars, span, otel, providerInput>>

NextProvider == Normalize

SpecProvider == InitProvider /\ [][NextProvider]_vars

(***************************************************************************)
(* Properties of SpanConverter (Spec)                                      *)
(***************************************************************************)
Issued(c) == calls[c].pc # "idle"
InFlight(a) == attempts[a].pc \in {"awaitPackageVersion", "awaitServiceVersion"}
Returned == {c \in Calls : calls[c].pc = "returned"}

\* C1: however the convertSpan calls interleave with the initialization, the
\* body of initIfNeeded is started exactly once (so getPackageVersion is
\* called at most once per package), and every call awaits that one promise.
C1_SingleFlight ==
    /\ initStarts <= 1
    /\ lookupCalls <= 2
    /\ (\E c \in Calls : Issued(c)) => initStarts = 1 /\ initPromise = 1
    /\ \A c \in Calls : Issued(c) => calls[c].awaited = initPromise

\* C1 witness: two calls await the initialization while it is in flight
C1_Witness ==
    /\ initPromise # 0
    /\ InFlight(initPromise)
    /\ \E c, d \in Calls : c # d /\ calls[c].pc = "awaitInit" /\ calls[d].pc = "awaitInit"

\* C2: after the resolution has thrown, nothing is cached and the next
\* convertSpan call starts a new resolution instead of reusing the failed one.
C2_RetryAfterFailure ==
    [][\A c \in Calls :
          (/\ ~Issued(c)
           /\ calls'[c].pc = "awaitInit"
           /\ \E a \in Attempts : attempts[a].pc = "rejected")
          => (/\ initStarts' = initStarts + 1
              /\ attempts[calls'[c].awaited].pc = "unused")]_vars

\* C3: resource and scope are each written at most once, are set together,
\* never change once set, and every returned span carries exactly them.
C3_ContextState ==
    /\ resourceWrites <= 1
    /\ scopeWrites <= 1
    /\ (resource = <<>>) <=> (scope = <<>>)
    /\ \A c \in Returned :
          /\ resource # <<>> /\ scope # <<>>
          /\ calls[c].out[1].resource = resource[1]
          /\ calls[c].out[1].instrumentationScope = scope[1]
          /\ DOMAIN calls[c].out[1].resource =
                 {"service.name", "service.version", "telemetry.sdk.name",
                  "telemetry.sdk.version", "telemetry.sdk.language"}
                 \cup (IF params.resourceAttributes = <<>> THEN {}
                       ELSE DOMAIN params.resourceAttributes[1])
    /\ \A c, d \in Returned :
          /\ calls[c].out[1].resource = calls[d].out[1].resource
          /\ calls[c].out[1].instrumentationScope = calls[d].out[1].instrumentationScope

C3_ContextStep ==
    /\ resource # <<>> => resource' = resource
    /\ scope # <<>> => scope' = scope

C3_SharedContext == []C3_ContextState /\ [][C3_ContextStep]_vars

\* C3 witness: two calls have returned spans, one issued before the
\* initialization completed and one issued after it
C3_Witness ==
    /\ Cardinality(Returned) >= 2
    /\ resourceWrites = 1

(***************************************************************************)
(* Properties of the OtelSpan constructor (SpecSpan)                       *)
(***************************************************************************)
HasErrorInfo(s) == s.errorInfo # <<>>
HasEndTime(s) == s.endTime # <<>>
\* a parent span id is a non-empty string (the code tests it for truthiness)
HasParentSpanId(s) == s.parentSpanId.t = "string" /\ s.parentSpanId.v # ""
\* a stack string is a non-empty string (the code tests it for truthiness)
HasStackString(s) ==
    /\ HasErrorInfo(s)
    /\ s.errorInfo[1].details # <<>>
    /\ "stack" \in DOMAIN s.errorInfo[1].details[1]
    /\ s.errorInfo[1].details[1]["stack"].t = "string"
    /\ s.errorInfo[1].details[1]["stack"].v # ""

\* C4: the output span context carries the input id and traceId, and the
\* output parent span context carries the input parentSpanId and the same
\* traceId whenever the input has a parentSpanId.
C4_IdentityPreserved ==
    otel # <<>> =>
        /\ otel[1].spanContext.spanId = span.id
        /\ otel[1].spanContext.traceId = span.traceId
        /\ HasParentSpanId(span) =>
              /\ otel[1].parentSpanContext # <<>>
              /\ otel[1].parentSpanContext[1].spanId = span.parentSpanId.v
              /\ otel[1].parentSpanContext[1].traceId = span.traceId

\* C4 witness: a span with a parent has been converted
C4_Witness ==
    /\ otel # <<>>
    /\ HasParentSpanId(span)
    /\ span.id = "span-2"
    /\ otel[1].parentSpanContext # <<>>

\* C5: the status is ERROR with errorInfo.message when the input has
\* errorInfo, else OK when it has an endTime, else UNSET.
C5_StatusDerivation ==
    otel # <<>> =>
        /\ HasErrorInfo(span) =>
              /\ otel[1].status.code = "ERROR"
              /\ otel[1].status.message = span.errorInfo[1].message
        /\ ~HasErrorInfo(span) /\ HasEndTime(span) => otel[1].status.code = "OK"
        /\ ~HasErrorInfo(span) /\ ~HasEndTime(span) => otel[1].status.code = "UNSET"

\* C5 witness: a span with both errorInfo and endTime has been converted, so
\* the order of the two tests decides the status
C5_Witness ==
    /\ otel # <<>>
    /\ HasErrorInfo(span)
    /\ HasEndTime(span)
    /\ otel[1].status.code = "ERROR"

\* C6 as stated: the status is UNSET iff the input has no endTime, and ERROR
\* iff errorInfo is present.
C6_Original ==
    otel # <<>> =>
        /\ (otel[1].status.code = "UNSET") <=> ~HasEndTime(span)
        /\ (otel[1].status.code = "ERROR") <=> HasErrorInfo(span)

\* C6 amended: the status is UNSET iff the input has neither endTime nor
\* errorInfo, and ERROR iff errorInfo is present.
C6_StatusIff ==
    otel # <<>> =>
        /\ (otel[1].status.code = "UNSET") <=> (~HasEndTime(span) /\ ~HasErrorInfo(span))
        /\ (otel[1].status.code = "ERROR") <=> HasErrorInfo(span)

\* C6 witness: an open span with errorInfo has been converted
C6_Witness ==
    /\ otel # <<>>
    /\ ~HasEndTime(span)
    /\ HasErrorInfo(span)
    /\ otel[1].status.code = "ERROR"

\* C7: the events are exactly one 'exception' event when the input has
\* errorInfo and none otherwise; the event is timed at the output startTime,
\* carries exception.message = errorInfo.message, and carries
\* exception.stacktrace (the stack) exactly when details has a stack string.
C7_ExceptionEvent ==
    otel # <<>> =>
        IF HasErrorInfo(span)
        THEN /\ Len(otel[1].events) = 1
             /\ otel[1].events[1].name = "exception"
             /\ otel[1].events[1].time = otel[1].startTime
             /\ otel[1].events[1].attributes["exception.message"] =
                    span.errorInfo[1].message
             /\ ("exception.stacktrace" \in DOMAIN otel[1].events[1].attributes)
                    <=> HasStackString(span)
             /\ HasStackString(span) =>
                    otel[1].events[1].attributes["exception.stacktrace"] =
                        span.errorInfo[1].details[1]["stack"]
        ELSE otel[1].events = <<>>

\* C7 witness: an ended span with errorInfo and a stack has been converted
C7_Witness ==
    /\ otel # <<>>
    /\ HasStackString(span)
    /\ HasEndTime(span)
    /\ otel[1].endTime # otel[1].startTime
    /\ Len(otel[1].events) = 1

\* C8: ended is true iff the input has an endTime; without an endTime the
\* duration is [0, 0] and the output endTime is the output startTime.
C8_EndedAndDuration ==
    otel # <<>> =>
        /\ otel[1].ended <=> HasEndTime(span)
        /\ ~HasEndTime(span) =>
              /\ otel[1].duration = <<0, 0>>
              /\ otel[1].endTime = otel[1].startTime

\* C8 witness: an open span that started after the epoch has been converted
C8_Witness ==
    /\ otel # <<>>
    /\ ~HasEndTime(span)
    /\ span.startTime # 0
    /\ otel[1].ended = FALSE

(***************************************************************************)
(* Properties of getAttributes (SpecSpan)                                  *)
(***************************************************************************)
\* the keys of span.metadata
MetadataKeysOf(s) ==
    IF s.metadata = <<>> THEN {} ELSE {s.metadata[1][i].k : i \in DOMAIN s.metadata[1]}

\* C9: the metadata pass never overwrites an attribute that is already set:
\* every key written by the earlier stages keeps, in the returned attributes,
\* the value those stages gave it.
C9_MetadataNeverOverwrites ==
    otel # <<>> =>
        \A k \in DOMAIN AttributesBeforeMetadata(span) :
            /\ k \in DOMAIN otel[1].attributes
            /\ otel[1].attributes[k] = AttributesBeforeMetadata(span)[k]

\* C10: a metadata entry whose key is already among the attributes of the
\* earlier stages adds no attribute, whatever value that attribute has: when
\* every metadata key is such a key, the returned attributes are those of
\* the earlier stages.
C10_PresentKeySkipped ==
    otel # <<>> =>
        (MetadataKeysOf(span) \subseteq DOMAIN AttributesBeforeMetadata(span)
            => otel[1].attributes = AttributesBeforeMetadata(span))

\* the metadata entries of the span, in object order
MetadataEntriesOf(s) == IF s.metadata = <<>> THEN <<>> ELSE s.metadata[1]

\* the attributes as entry i of the metadata finds them
AttributesBeforeEntry(s, i) ==
    MetadataPass(AttributesBeforeMetadata(s), SubSeq(MetadataEntriesOf(s), 1, i - 1))

\* the serialized value of a metadata entry
SerializedValue(v) == IF v.t = "object" THEN Stringify(v) ELSE v.v

\* entry i has a key that is not yet an attribute key and a value that is
\* neither null nor undefined
EntryApplies(s, i) ==
    /\ MetadataEntriesOf(s)[i].k \notin DOMAIN AttributesBeforeEntry(s, i)
    /\ ~Nullish(MetadataEntriesOf(s)[i].v)

\* entry i is written by the pass: the guard of the pass finds no attribute
\* under its key, and its value is neither null nor undefined
EntryWritten(s, i) ==
    /\ AttributeMissing(AttributesBeforeEntry(s, i), MetadataEntriesOf(s)[i].k)
    /\ ~Nullish(MetadataEntriesOf(s)[i].v)

\* C11 as stated: every metadata entry (k, v) whose key is not yet an
\* attribute key and whose value is neither null nor undefined is found in
\* the returned attributes under the key "serialized v" with the value
\* "mastra.metadata." + k; an entry with a null or undefined value adds nothing.
C11_Original ==
    otel # <<>> =>
        \A i \in DOMAIN MetadataEntriesOf(span) :
            LET e == MetadataEntriesOf(span)[i]
            IN  /\ Nullish(e.v) =>
                       AttributesBeforeEntry(span, i + 1) = AttributesBeforeEntry(span, i)
                /\ EntryApplies(span, i) =>
                       Get(otel[1].attributes, SerializedValue(e.v))
                           = Str("mastra.metadata." \o e.k)

\* C11 (amended): the same, for the entries whose serialized value no later
\* written entry repeats; of several written entries with the same
\* serialized value the last one gives the attribute its value.
C11_SwappedWrite ==
    otel # <<>> =>
        \A i \in DOMAIN MetadataEntriesOf(span) :
            LET es == MetadataEntriesOf(span)
                e == es[i]
                Repeated == \E j \in DOMAIN es :
                               /\ j > i
                               /\ EntryWritten(span, j)
                               /\ SerializedValue(es[j].v) = SerializedValue(e.v)
            IN  /\ Nullish(e.v) =>
                       AttributesBeforeEntry(span, i + 1) = AttributesBeforeEntry(span, i)
                /\ EntryApplies(span, i) /\ ~Repeated =>
                       Get(otel[1].attributes, SerializedValue(e.v))
                           = Str("mastra.metadata." \o e.k)

\* a span was built whose metadata holds an applying entry and an entry with
\* a null value
C11_Witness ==
    /\ otel # <<>>
    /\ \E i, j \in DOMAIN MetadataEntriesOf(span) :
           /\ EntryApplies(span, i)
           /\ MetadataEntriesOf(span)[j].v = Null
           /\ Get(otel[1].attributes, SerializedValue(MetadataEntriesOf(span)[i].v))
                  = Str("mastra.metadata." \o MetadataEntriesOf(span)[i].k)

(***************************************************************************)
(* Properties of normalizeProvider (SpecProvider)                          *)
(***************************************************************************)
\* the provider name lowercased and stripped of every character other than
\* a-z and 0-9
LowercasedAndStripped(name) == Join(SelectSeq(Chars[ToLowerCase(name)], IsLowerAlnum))

\* the canonical identifiers whose alias list contains the token
CanonicalsWithAlias(token) ==
    {PROVIDER_ALIASES[i].canonical : i \in
        {i \in DOMAIN PROVIDER_ALIASES :
            \E j \in DOMAIN PROVIDER_ALIASES[i].aliases :
                PROVIDER_ALIASES[i].aliases[j] = token}}

C13_Idempotent ==
    Len(providerResults) >= 2 => providerResults[2] = providerResults[1]

\* an alias was normalized to a canonical identifier that is not itself an
\* alias, and the canonical identifier was normalized again
C13_Witness ==
    /\ providerInput = "AZUREOPENAI"
    /\ Len(providerResults) >= 2
    /\ providerResults[2] = "azure.ai.openai"

(***************************************************************************)
(* Properties of the span name and kind (SpecSpan)                         *)
(***************************************************************************)
\* the field of span.attributes, or "unknown" when it is absent
FieldOrUnknown(s, field) ==
    IF Nullish(Get(AttrsOf(s), field)) THEN "unknown" ELSE Get(AttrsOf(s), field).v

\* C14: the output name of a MODEL_GENERATION, TOOL_CALL, MCP_TOOL_CALL,
\* AGENT_RUN or WORKFLOW_RUN span is "<operation> <identifier>", the
\* operation being chat, execute_tool, execute_tool, invoke_agent,
\* invoke_workflow and the identifier the model, toolId, agentName or else
\* agentId, workflowId, or "unknown" when absent; the output name of a span
\* of any other kind is the input name without the characters that are
\* neither letters, digits, '.', '_', space nor '-'.
C14_SpanNames ==
    otel # <<>> =>
        otel[1].name =
            CASE span.type = MODEL_GENERATION -> "chat " \o FieldOrUnknown(span, "model")
              [] span.type \in {TOOL_CALL, MCP_TOOL_CALL} ->
                    "execute_tool " \o FieldOrUnknown(span, "toolId")
              [] span.type = AGENT_RUN ->
                    "invoke_agent " \o
                        (IF Nullish(Get(AttrsOf(span), "agentName"))
                         THEN FieldOrUnknown(span, "agentId")
                         ELSE Get(AttrsOf(span), "agentName").v)
              [] span.type = WORKFLOW_RUN ->
                    "invoke_workflow " \o FieldOrUnknown(span, "workflowId")
              [] OTHER -> Join(SelectSeq(Chars[span.name], IsSpanNameChar))

\* C15: the kind of the output span is CLIENT exactly when the input span is
\* a MODEL_GENERATION or an MCP_TOOL_CALL span and INTERNAL for every other
\* type, local TOOL_CALL, AGENT_RUN and WORKFLOW_RUN included; it is
\* getSpanKind of the input type.
C15_SpanKind ==
    otel # <<>> =>
        /\ otel[1].kind = getSpanKind(span.type)
        /\ otel[1].kind \in {"CLIENT", "INTERNAL"}
        /\ otel[1].kind = "CLIENT" <=> span.type \in {MODEL_GENERATION, MCP_TOOL_CALL}
        /\ span.type \in {TOOL_CALL, AGENT_RUN, WORKFLOW_RUN} => otel[1].kind = "INTERNAL"

\* a local tool call was converted to an INTERNAL span
C15_Witness ==
    /\ otel # <<>>
    /\ span.type = TOOL_CALL
    /\ otel[1].kind = "INTERNAL"

(***************************************************************************)
(* Properties of the version lookups (Spec)                                *)
(***************************************************************************)
\* what the resource and the scope carry for a lookup that returned v
CarriedVersion(v) == IF v = Undefined THEN "unknown" ELSE v.v

\* C16 (states): whatever the first lookup returned, the second lookup
\* follows; a fulfilled initialization has assigned a resource and a scope
\* that carry the looked-up version of each package whose lookup succeeded
\* and "unknown" for exactly the lookups that failed; a call that awaited a
\* fulfilled initialization returns a span with that resource and scope.
C16_State ==
    /\ \A a \in Attempts :
           LET found == attempts[a].lookups
           IN  /\ attempts[a].pc = "awaitServiceVersion" => Len(found) = 1
               /\ attempts[a].pc = "fulfilled" =>
                      /\ Len(found) = 2
                      /\ resource # <<>> /\ scope # <<>>
                      /\ resource[1]["telemetry.sdk.version"] = CarriedVersion(found[1])
                      /\ scope[1].version = CarriedVersion(found[1])
                      /\ resource[1]["service.version"] = CarriedVersion(found[2])
                      /\ resource[1]["telemetry.sdk.version"] = "unknown"
                             <=> found[1] = Undefined
                      /\ resource[1]["service.version"] = "unknown"
                             <=> found[2] = Undefined
    /\ \A c \in Calls :
           /\ calls[c].pc \in {"returned", "threw"}
           /\ attempts[calls[c].awaited].pc = "fulfilled"
           => /\ calls[c].pc = "returned"
              /\ calls[c].out[1].resource = resource[1]
              /\ calls[c].out[1].instrumentationScope = scope[1]

\* C16 (steps): the step in which a lookup settles never rejects the
\* initialization, whatever the lookup returned.
C16_Step ==
    \A a \in Attempts :
        attempts'[a].lookups # attempts[a].lookups => attempts'[a].pc # "rejected"

\* C16: a failed lookup of a package version never makes the initialization
\* or convertSpan fail; each lookup on its own yields "unknown" on failure.
C16_LookupFailureTolerated == []C16_State /\ [][C16_Step]_vars

\* both lookups failed, the initialization was fulfilled and a call returned
\* a span whose resource and scope carry "unknown"
C16_Witness ==
    \E c \in Calls :
        /\ calls[c].pc = "returned"
        /\ attempts[calls[c].awaited].lookups = <<Undefined, Undefined>>
        /\ calls[c].out[1].resource["service.version"] = "unknown"
        /\ calls[c].out[1].instrumentationScope.version = "unknown"

(***************************************************************************)
(* Liveness of convertSpan (SpecFair)                                      *)
(***************************************************************************)
\* C17: every call of convertSpan that has been issued eventually returns a
\* span or throws, when every ready continuation is eventually run.
C17_EveryCallSettles ==
    \A c \in Calls :
        (calls[c].pc = "awaitInit") ~> (calls[c].pc \in {"returned", "threw"})

\* every call was issued and has thrown, the initialization having failed
C17_Witness ==
    \A c \in Calls : calls[c].pc = "threw" /\ attempts[calls[c].awaited].pc = "rejected"

(***************************************************************************)
(* Properties of the returned attributes (SpecSpan)                        *)
(***************************************************************************)
\* C18: in every returned attribute set "mastra.span.type" is the raw span
\* type and "gen_ai.operation.name" is chat, execute_tool, invoke_agent or
\* invoke_workflow for the kinds that have such a name and the lowercased
\* type for the others, whatever the span and its metadata.
C18_BaselineAttributes ==
    otel # <<>> =>
        /\ Get(otel[1].attributes, "mastra.span.type") = Str(span.type)
        /\ Get(otel[1].attributes, "gen_ai.operation.name") =
               Str(CASE span.type = MODEL_GENERATION -> "chat"
                     [] span.type \in {TOOL_CALL, MCP_TOOL_CALL} -> "execute_tool"
                     [] span.type = AGENT_RUN -> "invoke_agent"
                     [] span.type = WORKFLOW_RUN -> "invoke_workflow"
                     [] OTHER -> Join([i \in DOMAIN Chars[span.type] |->
                                          ToLowerChar(Chars[span.type][i])]))

(***************************************************************************)
(* Properties of the times (SpecSpan)                                      *)
(***************************************************************************)
\* hr is the [seconds, nanoseconds] pair of ms milliseconds as C19 states it
IsHrTimeOf(hr, ms) ==
    /\ hr[1] = ms \div 1000
    /\ hr[2] = (ms % 1000) * 1000000
    /\ 0 <= hr[2] /\ hr[2] <= 999000000
    /\ hr[1] * 1000 + hr[2] \div 1000000 = ms

\* C19: the start time, the end time and the duration of the output span
\* are [seconds, nanoseconds] pairs with seconds the milliseconds divided by
\* 1000, nanoseconds the remainder times 1,000,000 and between 0 and
\* 999,000,000, so that seconds * 1000 + nanoseconds / 1e6 gives the
\* milliseconds back, for negative timestamps and durations too.
C19_HrTime ==
    otel # <<>> =>
        /\ IsHrTimeOf(otel[1].startTime, span.startTime)
        /\ span.endTime # <<>> =>
               /\ IsHrTimeOf(otel[1].endTime, span.endTime[1])
               /\ IsHrTimeOf(otel[1].duration, span.endTime[1] - span.startTime)

\* the generation parameters and the attributes that carry them
RequestAttributeOf ==
    ("temperature" :> "gen_ai.request.temperature") @@
    ("maxOutputTokens" :> "gen_ai.request.max_tokens") @@
    ("topP" :> "gen_ai.request.top_p") @@
    ("topK" :> "gen_ai.request.top_k") @@
    ("presencePenalty" :> "gen_ai.request.presence_penalty") @@
    ("frequencyPenalty" :> "gen_ai.request.frequency_penalty") @@
    ("seed" :> "gen_ai.request.seed")

\* the parameter of the MODEL_GENERATION span, Undefined when it is absent
ParameterOf(s, name) == Get(AttrsOf(s), "parameters." \o name)

\* C20 for the parameters in the set names
ParametersCarried(names) ==
    otel # <<>> /\ span.type = MODEL_GENERATION =>
        \A name \in names :
            IF ParameterOf(span, name) # Undefined
            THEN Get(otel[1].attributes, RequestAttributeOf[name]) = ParameterOf(span, name)
            ELSE RequestAttributeOf[name] \notin DOMAIN otel[1].attributes

\* C20: every generation parameter that is present in the input of a
\* MODEL_GENERATION span (temperature, maxOutputTokens, topP, topK,
\* presencePenalty, frequencyPenalty, seed), the value 0 included, is in the
\* returned attributes under its gen_ai.request.* key with that value, and a
\* parameter that is absent has no attribute.
C20_GenerationParameters == ParametersCarried(DOMAIN RequestAttributeOf)

====
